---- MODULE Spec2Model ----
(***************************************************************************)
(* A model of rkd2schema (src/main.py): the thesaurus resolver             *)
(* getThesaurus with its shared cache, the record mapper parseData with    *)
(* the identities it assigns, and the pure normalisers parseDate,          *)
(* getQuantitativeValue and unique.                                        *)
(*                                                                         *)
(* Python strings are TLA+ strings; Python's None is the value None.       *)
(***************************************************************************)
EXTENDS Integers, Sequences, FiniteSets, TLC

VARIABLES
    pc,          \* where the process is: the call it is about to make, or
                 \* Done/Raised of the call it made
    hashSeed,    \* the process's string-hash seed, as the order it gives a set
    dateIn,      \* the (begin, end) pair last given to parseDate
    dateExp,     \* parseDate's locals begin and end after lines 586-597
    dateOut,     \* what parseDate returned for it
    personIn,    \* the dict p last given to getPerson
    events,      \* the Event objects getPerson built for it
    qvIn,        \* the raw value given to getQuantitativeValue, with the
                 \* number written in it
    qvOut,       \* what getQuantitativeValue returned for it
    anon,        \* the anonymous persons made so far: owner, role, name and
                 \* the identity unique gave
    graph,       \* the thesaurus the two term pages show: each term's edges
    cache,       \* cachedict / thesaurusDict: identifier -> cached term
    disk,        \* rkdthesaurus.json: the cache as last saved
    stack,       \* the frames of getThesaurus, outermost first
    call,        \* the arguments of the last outermost getThesaurus call
    result,      \* what that call returned
    requests,    \* the term pages requested during that call, in order
    okFetches,   \* per identifier, the fetches that ended in a cache entry
                 \* since the entry last was lost with a process
    linkrefs,    \* the term identifiers of the list parseData is resolving
    keywords,    \* what getThesaurus returned for them so far
    doc,         \* the record d given to parseData
    ids1,        \* the identities parseData gave when it first mapped d
    ids2,        \* the identities it gave when it mapped d again
    bnodes,      \* the number of blank nodes BNode() has made so far
    db,          \* rdfSubject.db: the triples of the graph of this run
    mappedDocs   \* the records parseData mapped into it, in order

dateVars == <<dateIn, dateExp, dateOut, personIn, events>>

quantityVars == <<qvIn, qvOut>>

thesaurusVars ==
    <<graph, cache, disk, stack, call, result, requests, okFetches, linkrefs, keywords>>

mapVars == <<doc, ids1, ids2, bnodes, db, mappedDocs>>

Done(f) == f \o ".done"

Raised(f) == f \o ".raised"

-----------------------------------------------------------------------------
(* Python values *)

None == "<None>"

\* Python truthiness of an optional string: None and "" are falsy.
Truthy(s) == s # None /\ s # ""

\* d[key] where the dict d has no such key
Missing == "<KeyError>"

Char(s, i) == SubSeq(s, i, i)

Digits == "0123456789"

IsDigit(c) == \E d \in 1..10 : Char(Digits, d) = c

DigitVal(c) == (CHOOSE d \in 1..10 : Char(Digits, d) = c) - 1

AllDigits(s) == Len(s) > 0 /\ \A i \in 1..Len(s) : IsDigit(Char(s, i))

\* int(s) for a string of decimal digits
RECURSIVE int(_)
int(s) ==
    IF Len(s) = 0 THEN 0
    ELSE 10 * int(SubSeq(s, 1, Len(s) - 1)) + DigitVal(Char(s, Len(s)))

\* str(n) for a natural number
RECURSIVE str(_)
str(n) ==
    IF n < 10 THEN Char(Digits, n + 1)
    ELSE str(n \div 10) \o Char(Digits, (n % 10) + 1)

\* s.replace(old, new): left to right, non-overlapping
RECURSIVE Replace(_, _, _)
Replace(s, old, new) ==
    IF Len(s) < Len(old) THEN s
    ELSE IF SubSeq(s, 1, Len(old)) = old
         THEN new \o Replace(SubSeq(s, Len(old) + 1, Len(s)), old, new)
         ELSE Char(s, 1) \o Replace(SubSeq(s, 2, Len(s)), old, new)

\* s.split(sep) for a one-character separator
RECURSIVE SplitFrom(_, _, _)
SplitFrom(s, sep, acc) ==
    IF Len(s) = 0 THEN <<acc>>
    ELSE IF Char(s, 1) = sep
         THEN <<acc>> \o SplitFrom(SubSeq(s, 2, Len(s)), sep, "")
         ELSE SplitFrom(SubSeq(s, 2, Len(s)), sep, acc \o Char(s, 1))

Split(s, sep) == SplitFrom(s, sep, "")

-----------------------------------------------------------------------------
(* parseDate *)

\* calendar.isleap
isleap(year) == year % 4 = 0 /\ (year % 100 # 0 \/ year % 400 = 0)

\* calendar.mdays
mdays == <<31, 28, 31, 30, 31, 30, 31, 31, 30, 31, 30, 31>>

\* the second component of calendar.monthrange(year, month)
monthrangeLeapAlways(year, month) ==
    mdays[month] + (IF month = 2 /\ year % 4 = 0 THEN 1 ELSE 0)

monthrange(year, month) ==
    mdays[month] + (IF month = 2 /\ isleap(year) THEN 1 ELSE 0)

\* lines 586-589: the begin value, expanded
expandBegin(begin) ==
    IF Truthy(begin) /\ Len(begin) = 4 THEN begin \o "-01-01"
    ELSE IF Truthy(begin) /\ Len(begin) = 7 THEN begin \o "-01"
    ELSE begin

\* lines 595-596 raise: the unpacking of end.split('-'), int() or monthrange
expandEndRaises(end) ==
    /\ Truthy(end) /\ Len(end) = 7
    /\ LET parts == Split(end, "-")
       IN  ~(/\ Len(parts) = 2 /\ AllDigits(parts[1]) /\ AllDigits(parts[2])
             /\ int(parts[2]) \in 1..12)

\* lines 591-597: the end value, expanded
expandEndLikeBegin(end) ==
    IF Truthy(end) /\ Len(end) = 4 THEN end \o "-01-01"
    ELSE IF Truthy(end) /\ Len(end) = 7
         THEN LET parts == Split(end, "-")
              IN  end \o "-" \o str(monthrange(int(parts[1]), int(parts[2])))
    ELSE end

expandEnd(end) ==
    IF Truthy(end) /\ Len(end) = 4 THEN end \o "-12-31"
    ELSE IF Truthy(end) /\ Len(end) = 7
         THEN LET parts == Split(end, "-")
              IN  end \o "-" \o str(monthrange(int(parts[1]), int(parts[2])))
    ELSE end

\* lines 599-616: <<timeStamp, earliestBeginTimeStamp, latestEndTimeStamp>>
selectStampsAlwaysExact(b, e) ==
    IF Truthy(b) /\ Truthy(e) THEN <<b, b, e>>
    ELSE IF Truthy(b) THEN <<None, b, None>>
    ELSE <<None, None, None>>

selectStamps(b, e) ==
    IF Truthy(b) /\ b = e THEN <<b, b, b>>
    ELSE IF Truthy(b) /\ Truthy(e) THEN <<None, b, e>>
    ELSE IF Truthy(b) THEN <<None, b, None>>
    ELSE <<None, None, None>>

parseDateRaises(begin, end) == expandEndRaises(end)

parseDate(begin, end) == selectStamps(expandBegin(begin), expandEnd(end))

-----------------------------------------------------------------------------
(* unique and the identities built from it *)

nsPerson == "https://data.create.humanities.uva.nl/id/rkd/persons/"

nsThesaurus == "https://data.create.humanities.uva.nl/id/rkd/thesaurus/"

\* Namespace.term
term(ns, name) == ns \o name

\* "".join(args)
RECURSIVE Join(_)
Join(args) == IF Len(args) = 0 THEN "" ELSE Head(args) \o Join(Tail(args))

\* sep.join(args)
RECURSIVE JoinWith(_, _)
JoinWith(sep, args) ==
    IF Len(args) = 0 THEN ""
    ELSE IF Len(args) = 1 THEN Head(args)
    ELSE Head(args) \o sep \o JoinWith(sep, Tail(args))

\* str(i) of an argument that is a string or None
strOf(i) == IF i = None THEN "None" ELSE i

\* uuid.uuid5(NAMESPACE_X500, identifier) wrapped in a BNode: a fixed hash
\* of the identifier string, taken here as collision-free
uuid5(identifier) == "_:uuid5(" \o identifier \o ")"

\* unique(*args), lines 199-205: the arguments joined with nothing between
unique(args) == uuid5(Join([i \in 1..Len(args) |-> strOf(args[i])]))

\* the orders a process can give a set of up to three strings: which one
\* depends on the process's hash seed
SetOrders == {<<1, 2, 3>>, <<1, 3, 2>>, <<2, 1, 3>>, <<2, 3, 1>>, <<3, 1, 2>>, <<3, 2, 1>>}

\* the distinct elements of a list, in order of first insertion
RECURSIVE Distinct(_)
Distinct(xs) ==
    IF Len(xs) = 0 THEN <<>>
    ELSE LET init == Distinct(SubSeq(xs, 1, Len(xs) - 1))
             last == xs[Len(xs)]
         IN  IF \E i \in 1..Len(init) : init[i] = last THEN init
             ELSE Append(init, last)

\* the elements of xs (pairwise distinct), by rank under the order `seed`
RECURSIVE SortByRank(_, _, _)
SortByRank(xs, seed, todo) ==
    IF todo = {} THEN <<>>
    ELSE LET i == CHOOSE i \in todo : \A j \in todo : seed[i] <= seed[j]
         IN  <<xs[i]>> \o SortByRank(xs, seed, todo \ {i})

\* repr of a set element
repr(x) == IF x = None THEN "None" ELSE "'" \o x \o "'"

\* str(set(xs)) in a process with hash seed `seed`
strOfSet(xs, seed) ==
    LET d == Distinct(xs)
        o == SortByRank(d, seed, 1..Len(d))
    IN  "{" \o JoinWith(", ", [i \in 1..Len(o) |-> repr(o[i])]) \o "}"

-----------------------------------------------------------------------------
(* getPerson *)

\* getPlace, lines 645-650
getPlace(identifier) ==
    IF Truthy(identifier) THEN term(nsThesaurus, identifier) ELSE None

Event(cls, id, principal, partner, place, stamps) ==
    [cls |-> cls, id |-> id, principal |-> principal, partner |-> partner,
     place |-> place,
     hasTimeStamp |-> stamps[1],
     hasEarliestBeginTimeStamp |-> stamps[2],
     hasLatestEndTimeStamp |-> stamps[3],
     label |-> <<>>]

\* lines 34-40
eventTranslationNL ==
    [Birth |-> "Geboorte", Baptism |-> "Doop", Death |-> "Overlijden",
     Burial |-> "Begrafenis", Marriage |-> "Huwelijk"]

\* the characters of the names, in code point order
CodePoints == " 0123456789ABCDEFGHIJKLMNOPQRSTUVWXYZabcdefghijklmnopqrstuvwxyz"

ord(c) == CHOOSE k \in 1..Len(CodePoints) : Char(CodePoints, k) = c

\* a < b for two str, as sorted() compares them
RECURSIVE StrLess(_, _)
StrLess(a, b) ==
    IF Len(b) = 0 THEN FALSE
    ELSE IF Len(a) = 0 THEN TRUE
    ELSE IF Char(a, 1) # Char(b, 1) THEN ord(Char(a, 1)) < ord(Char(b, 1))
    ELSE StrLess(SubSeq(a, 2, Len(a)), SubSeq(b, 2, Len(b)))

\* sorted(xs): ascending, stable
RECURSIVE sorted(_)
sorted(xs) ==
    IF Len(xs) <= 1 THEN xs
    ELSE LET init == sorted(SubSeq(xs, 1, Len(xs) - 1))
             last == xs[Len(xs)]
             keep == SelectSeq(init, LAMBDA x : ~StrLess(last, x))
             move == SelectSeq(init, LAMBDA x : StrLess(last, x))
         IN  keep \o <<last>> \o move

\* str(stamp)[:4]
year4(stamp) == SubSeq(stamp, 1, IF Len(stamp) < 4 THEN Len(stamp) ELSE 4)

\* lines 210-219: the year part of the label
labelYear(event) ==
    IF Truthy(event.hasTimeStamp) THEN year4(event.hasTimeStamp)
    ELSE IF Truthy(event.hasEarliestBeginTimeStamp) /\ Truthy(event.hasLatestEndTimeStamp)
    THEN "ca. " \o year4(event.hasEarliestBeginTimeStamp) \o "-"
                \o year4(event.hasLatestEndTimeStamp)
    ELSE IF Truthy(event.hasEarliestBeginTimeStamp)
    THEN "ca. " \o year4(event.hasEarliestBeginTimeStamp) \o "-?"
    ELSE IF Truthy(event.hasLatestEndTimeStamp)
    THEN "ca. ?-" \o year4(event.hasLatestEndTimeStamp)
    ELSE "?"

\* lines 226-231 raise: name[0] of a participant whose name list is empty.
\* names[i] is the name list of the i-th participant of the event: of the
\* principal if it has one, else of each partner
getEventLabelRaises(event, names) ==
    IF Truthy(event.principal) THEN Len(names[1]) = 0
    ELSE \E i \in 1..Len(event.partner) : Len(names[i]) = 0

\* lines 208-242: [labelNL, labelEN]
getEventLabel(event, names) ==
    LET year == labelYear(event)
        persons == IF Truthy(event.principal) THEN <<names[1][1]>>
                   ELSE sorted([i \in 1..Len(event.partner) |-> names[i][1]])
    IN  IF Len(persons) > 0
        THEN <<eventTranslationNL[event.cls] \o " van " \o JoinWith(" en ", persons)
                    \o " (" \o year \o ")",
               event.cls \o " of " \o JoinWith(" and ", persons)
                    \o " (" \o year \o ")">>
        ELSE <<eventTranslationNL[event.cls] \o " (" \o year \o ")",
               event.cls \o " (" \o year \o ")">>

\* lines 479-480: the identity of a father known by name only
fatherPseudoId(persoonsnummer, naam_vader) == unique(<<persoonsnummer, naam_vader>>)

\* lines 494-495: the identity of a mother known by name only
motherPseudoId(persoonsnummer, naam_moeder) == unique(<<persoonsnummer, naam_moeder>>)

\* lines 913-914: the identity of a marriage partner known by name only
partnerPseudoId(identifier, marriagePartner) == unique(<<identifier, marriagePartner>>)

\* lines 894-895: the marriage blocks that give an event
hasMarriage(m) ==
    \/ Truthy(m.marriagePlace) \/ Truthy(m.marriageDate)
    \/ Truthy(m.marriagePartner) \/ Truthy(m.marriagePartnerIdentifier)

\* lines 905-917: the identity of the partner, None when there is none
partnerOf(p, m) ==
    IF Truthy(m.marriagePartnerIdentifier)
    THEN term(nsPerson, m.marriagePartnerIdentifier)
    ELSE IF Truthy(m.marriagePartner)
    THEN partnerPseudoId(p.identifier, m.marriagePartner)
    ELSE None

\* lines 905-914: the name list of the partner object
partnerName(m) ==
    IF Truthy(m.marriagePartnerIdentifier)
    THEN (IF Truthy(m.marriagePartnerNameWithIdentifier)
          THEN <<m.marriagePartnerNameWithIdentifier>> ELSE <<>>)
    ELSE <<m.marriagePartner>>

\* lines 919-921: the name lists of the partners of the Marriage event
marriageNames(p, m) ==
    IF partnerOf(p, m) = None THEN << <<p.name>> >>
    ELSE << <<p.name>>, partnerName(m) >>

\* lines 897-929: one Marriage event
marriageEvent(p, m, seed) ==
    LET partner == partnerOf(p, m)
        person  == term(nsPerson, p.identifier)
    IN  Event("Marriage",
              unique(<<strOfSet(<<p.identifier, m.marriagePartner, "marriage">>, seed)>>),
              None,
              IF partner = None THEN <<person>> ELSE <<person, partner>>,
              getPlace(m.marriagePlaceIdentifier),
              <<IF Truthy(m.marriageDate) THEN m.marriageDate ELSE None, None, None>>)

hasBirth(p) == Truthy(p.birthPlace) \/ Truthy(p.birthDateBegin) \/ Truthy(p.birthDateEnd)

hasBaptism(p) == Truthy(p.baptismDateBegin) \/ Truthy(p.baptismDateEnd)

hasDeath(p) == Truthy(p.deathPlace) \/ Truthy(p.deathDateBegin) \/ Truthy(p.deathDateEnd)

\* lines 833-929: the events of person p, in the order built, not yet
\* labelled
builtEvents(p, seed) ==
    LET person  == term(nsPerson, p.identifier)
        birthD  == parseDate(p.birthDateBegin, p.birthDateEnd)
        baptD   == parseDate(p.baptismDateBegin, p.baptismDateEnd)
        deathD  == parseDate(p.deathDateBegin, p.deathDateEnd)
        ms == SelectSeq(p.marriages, hasMarriage)
    IN    (IF hasBirth(p)
              THEN <<Event("Birth", term(nsPerson, p.identifier \o "#birth"), person,
                           <<>>, getPlace(p.birthPlaceIdentifier), birthD)>>
              ELSE <<>>)
          \o (IF hasBaptism(p)
              THEN <<Event("Baptism", term(nsPerson, p.identifier \o "#baptism"), person,
                           <<>>, None, baptD)>>
              ELSE <<>>)
          \o (IF hasDeath(p)
              THEN <<Event("Death", term(nsPerson, p.identifier \o "#death"), person,
                           <<>>, getPlace(p.deathPlaceIdentifier), deathD)>>
              ELSE <<>>)
          \o (IF Truthy(p.burialDate)
              THEN <<Event("Burial", term(nsPerson, p.identifier \o "#burial"), person,
                           <<>>, None, <<p.burialDate, None, None>>)>>
              ELSE <<>>)
          \o [i \in 1..Len(ms) |-> marriageEvent(p, ms[i], seed)]

\* the name lists of the participants of each of these events
builtNames(p) ==
    LET ms == SelectSeq(p.marriages, hasMarriage)
        own(has) == IF has THEN << << <<p.name>> >> >> ELSE <<>>
    IN  own(hasBirth(p)) \o own(hasBaptism(p)) \o own(hasDeath(p))
          \o own(Truthy(p.burialDate))
          \o [i \in 1..Len(ms) |-> marriageNames(p, ms[i])]

\* getPerson raises where one of its parseDate calls does, or where
\* getEventLabel does (lines 938-939)
getPersonRaises(p) ==
    \/ hasBirth(p) /\ parseDateRaises(p.birthDateBegin, p.birthDateEnd)
    \/ hasBaptism(p) /\ parseDateRaises(p.baptismDateBegin, p.baptismDateEnd)
    \/ hasDeath(p) /\ parseDateRaises(p.deathDateBegin, p.deathDateEnd)
    \/ \E i \in 1..Len(p.marriages), seed \in SetOrders :
          /\ hasMarriage(p.marriages[i])
          /\ getEventLabelRaises(marriageEvent(p, p.marriages[i], seed),
                                 marriageNames(p, p.marriages[i]))

\* lines 819-941: the events of person p, in the order built, labelled
getPerson(p, seed) ==
    LET evs == builtEvents(p, seed)
        names == builtNames(p)
    IN  [i \in 1..Len(evs) |->
            [evs[i] EXCEPT !.label = getEventLabel(evs[i], names[i])]]

-----------------------------------------------------------------------------
(* getQuantitativeValue *)

\* a decimal number: num / 10^scale
Decimal(num, scale) == [num |-> num, scale |-> scale]

RECURSIVE Pow10(_)
Pow10(n) == IF n = 0 THEN 1 ELSE 10 * Pow10(n - 1)

SameNumber(a, b) == a.num * Pow10(b.scale) = b.num * Pow10(a.scale)

CountOf(s, c) == Cardinality({i \in 1..Len(s) : Char(s, i) = c})

\* float(s) does not raise ValueError. The raw values are written over
\* digits, '.', ',', ' ', '?' and lower-case letters other than e, f, i, n,
\* t and y, so a sign, an exponent, an underscore, "inf" and "nan" cannot
\* occur: what float accepts is digits with at most one '.'.
floatAccepts(s) ==
    /\ \A i \in 1..Len(s) : IsDigit(Char(s, i)) \/ Char(s, i) = "."
    /\ CountOf(s, ".") <= 1
    /\ \E i \in 1..Len(s) : IsDigit(Char(s, i))

\* float(s) for such a string, as an exact decimal
float(s) ==
    LET dot == IF CountOf(s, ".") = 0 THEN Len(s) + 1
               ELSE CHOOSE i \in 1..Len(s) : Char(s, i) = "."
    IN  Decimal(int(SubSeq(s, 1, dot - 1) \o SubSeq(s, dot + 1, Len(s))),
                IF dot > Len(s) THEN 0 ELSE Len(s) - dot)

\* lines 623-625: the chain of replace calls
stripMarkers(value) ==
    Replace(Replace(Replace(Replace(Replace(value,
        ",", "."), " ", ""), "c.", ""), "ca", ""), "cm", "")

NoValue == [unitCode |-> None, value |-> Decimal(0, 0)]

\* getQuantitativeValue, lines 619-642: the unit code and the value of the
\* QuantitativeValue returned, NoValue where None is returned
getQuantitativeValue(value) ==
    IF Truthy(value) /\ value # "?"
    THEN LET stripped == stripMarkers(value)
         IN  IF floatAccepts(stripped)
             THEN LET f == float(stripped)
                  IN  [unitCode |-> "MTR", value |-> Decimal(f.num, f.scale + 2)]
             ELSE NoValue
    ELSE NoValue

-----------------------------------------------------------------------------
(* getThesaurus *)

\* maxRecursionDepth=2, line 659
DefaultMaxRecursionDepth == 2

ReturnTypes == {"uri", "concept"}

\* what a call returns: None, a bare reference (the term's URI) or a Concept
\* with the values its neighbours resolved to
NoneValue ==
    [kind |-> "none", uri |-> None, broader |-> <<>>, narrower |-> <<>>,
     related |-> <<>>, sameAs |-> None]

Reference(uri) ==
    [kind |-> "uri", uri |-> uri, broader |-> <<>>, narrower |-> <<>>,
     related |-> <<>>, sameAs |-> None]

Concept(uri, broaders, narrowers, relateds, aat) ==
    [kind |-> "concept", uri |-> uri, broader |-> broaders,
     narrower |-> narrowers, related |-> relateds, sameAs |-> aat]

\* a frame of getThesaurus: its arguments, recursionDepth after line 664,
\* where it is, and the lists broaders, narrowers and relateds so far
FrameWithDeeperCeiling(identifier, returnType, recursionDepth, maxRecursionDepth) ==
    [identifier |-> identifier, returnType |-> returnType,
     recursionDepth |-> recursionDepth, maxRecursionDepth |-> maxRecursionDepth + 1,
     phase |-> "check", next |-> 1,
     broaders |-> <<>>, narrowers |-> <<>>, relateds |-> <<>>]

Frame(identifier, returnType, recursionDepth, maxRecursionDepth) ==
    [identifier |-> identifier, returnType |-> returnType,
     recursionDepth |-> recursionDepth, maxRecursionDepth |-> maxRecursionDepth,
     phase |-> "check", next |-> 1,
     broaders |-> <<>>, narrowers |-> <<>>, relateds |-> <<>>]

\* line 665
atCeilingStrict(f) == f.recursionDepth > f.maxRecursionDepth

atCeiling(f) == f.recursionDepth >= f.maxRecursionDepth

\* line 668
cacheMissAlways(c, identifier) == TRUE

cacheMiss(c, identifier) == identifier \notin DOMAIN c

\* lines 678-689: the cache entry made of the two pages of a term
Entry(g, identifier) ==
    [identifier |-> identifier, url |-> term(nsThesaurus, identifier),
     titleNL |-> g[identifier].titleNL, titleEN |-> g[identifier].titleEN,
     broader |-> g[identifier].broader, narrower |-> g[identifier].narrower,
     related |-> g[identifier].related, aat |-> g[identifier].aat]

\* lines 676-696 for the pages dataNL and dataEN (found or None):
\* "TypeError" where a subscript of None raises, "cached" where the entry
\* is written, "unresolved" where None is returned
fetchEnd(nl, en) ==
    IF nl /\ en THEN "cached"
    ELSE IF nl \/ en THEN "TypeError"
    ELSE "unresolved"

\* lines 693-696: the cache after the fetch
cacheAfterFetchKeepingMiss(c, g, identifier, nl, en) ==
    IF fetchEnd(nl, en) = "cached" THEN (identifier :> Entry(g, identifier)) @@ c
    ELSE IF fetchEnd(nl, en) = "unresolved"
    THEN (identifier :> [Entry(g, identifier) EXCEPT
                            !.broader = <<>>, !.narrower = <<>>, !.related = <<>>]) @@ c
    ELSE c

cacheAfterFetch(c, g, identifier, nl, en) ==
    IF fetchEnd(nl, en) = "cached" THEN (identifier :> Entry(g, identifier)) @@ c
    ELSE c

\* the identifiers the loops of lines 699, 709 and 718 go through, in order
neighbours(e) == e.broader \o e.narrower \o e.related

\* lines 728-749
returnValueAlwaysConcept(f, e) ==
    Concept(e.url, f.broaders, f.narrowers, f.relateds, e.aat)

returnValue(f, e) ==
    IF f.returnType = "uri" THEN Reference(e.url)
    ELSE IF f.returnType = "concept"
    THEN Concept(e.url, f.broaders, f.narrowers, f.relateds, e.aat)
    ELSE NoneValue

\* lines 705-706, 714-715, 723-724: the caller's frame with the value of its
\* neighbour number f.next, appended where the value is truthy
withNeighbour(f, e, v) ==
    LET i == f.next
        nb == Len(e.broader)
        nn == Len(e.narrower)
    IN  [f EXCEPT
            !.next = i + 1,
            !.broaders  = IF v.kind # "none" /\ i <= nb THEN Append(@, v) ELSE @,
            !.narrowers = IF v.kind # "none" /\ i > nb /\ i <= nb + nn
                          THEN Append(@, v) ELSE @,
            !.relateds  = IF v.kind # "none" /\ i > nb + nn THEN Append(@, v) ELSE @]

\* the levels of a returned value: 1 for a bare reference, one more than
\* its deepest neighbour for a Concept
RECURSIVE Levels(_)
Levels(v) ==
    IF v.kind = "none" THEN 0
    ELSE LET below == v.broader \o v.narrower \o v.related
             depths == {Levels(below[i]) : i \in 1..Len(below)}
         IN  1 + (IF depths = {} THEN 0 ELSE CHOOSE d \in depths : \A x \in depths : x <= d)

-----------------------------------------------------------------------------
(* parseData: the identities of the entities it makes *)

\* rdfSubject(None): the subject is a new BNode(), a random identifier that
\* no earlier call returned; k counts the blank nodes made so far
BNode(k) == "_:N" \o str(k)

\* lines 448-465
personData(p) ==
    [identifier |-> p.persoonsnummer, name |-> p.naam_display,
     disambiguatingDescription |-> p.functie, gender |-> p.geslacht,
     birthPlace |-> p.geboorteplaats,
     birthPlaceIdentifier |-> p.geboorteplaats_lref,
     birthDateBegin |-> p.geboortedatum_begin,
     birthDateEnd |-> p.geboortedatum_eind,
     baptismDateBegin |-> p.doopdatum_begin,
     baptismDateEnd |-> p.doopdatum_eind,
     deathPlace |-> p.sterfplaats,
     deathPlaceIdentifier |-> p.sterfplaats_lref,
     deathDateBegin |-> p.sterfdatum_begin,
     deathDateEnd |-> p.sterfdatum_eind,
     burialDate |-> p.begraafdatum,
     marriages |-> [i \in 1..Len(p.huwelijk) |->
        [marriageDate |-> p.huwelijk[i].datum_huwelijk,
         marriagePartner |-> p.huwelijk[i].huwelijks_partner,
         marriagePartnerIdentifier |-> p.huwelijk[i].huwelijks_partner_nummer_lref,
         marriagePartnerNameWithIdentifier |-> p.huwelijk[i].naam_huw_partner_samenvoeging,
         marriagePlace |-> p.huwelijk[i].huwelijk_plaats,
         marriagePlaceIdentifier |-> p.huwelijk[i].huwelijk_plaats_lref]]]

\* line 426
isCurrent(p) == p.status_identificatie_portret = "huidig"

\* lines 470-483: the father's identity, None without father
fatherOf(p) ==
    IF Truthy(p.vader) THEN term(nsPerson, p.vader)
    ELSE IF Truthy(p.naam_vader) THEN fatherPseudoId(p.persoonsnummer, p.naam_vader)
    ELSE None

\* lines 485-498: the mother's identity, None without mother
motherOf(p) ==
    IF Truthy(p.moeder) THEN term(nsPerson, p.moeder)
    ELSE IF Truthy(p.naam_moeder) THEN motherPseudoId(p.persoonsnummer, p.naam_moeder)
    ELSE None

\* lines 892-922: the spouses of getPerson
spousesOf(p) ==
    LET ms == SelectSeq(p.marriages, hasMarriage)
        withPartner == SelectSeq(ms, LAMBDA m : partnerOf(p, m) # None)
    IN  [i \in 1..Len(withPartner) |-> partnerOf(p, withPartner[i])]

\* lines 423-516 for one sitter block: the identities of the sitter, the
\* parents, the children, the spouses and the events
sitterIdentities(p, seed) ==
    LET evs == getPerson(personData(p), seed)
    IN  [person |-> term(nsPerson, p.persoonsnummer),
         father |-> fatherOf(p),
         mother |-> motherOf(p),
         children |-> [i \in 1..Len(p.kinderen) |-> term(nsPerson, p.kinderen[i])],
         spouses |-> spousesOf(personData(p)),
         events |-> [i \in 1..Len(evs) |-> evs[i].id]]

\* the dimensions of lines 370-374 that give a QuantitativeValue
measured(d) ==
    SelectSeq(<<d.breedte, d.hoogte, d.diepte>>,
              LAMBDA v : getQuantitativeValue(v) # NoValue)

\* lines 389-420: the priref of the related work of each relation, None
\* where an artistic relation names none
relatedPrirefs(d) == d.onderdeel_van \o d.artistiek

\* lines 332-336: the artists of the current attributions
attributedTo(d) ==
    LET current == SelectSeq(d.toeschrijving,
                             LAMBDA a : a.status = "huidig" /\ Truthy(a.naam_linkref))
    IN  [i \in 1..Len(current) |->
            "https://data.rkd.nl/artists/" \o current[i].naam_linkref]

imageURI(priref) == "https://rkd.nl/explore/images/" \o priref

\* a sitter block raises in getPerson
getPersonOfSitterRaises(d) ==
    \E i \in 1..Len(d.voorgestelde) :
        isCurrent(d.voorgestelde[i]) /\ getPersonRaises(personData(d.voorgestelde[i]))

\* lines 338-339 raise KeyError: a search-margin year is no key of d
searchDateRaises(d) ==
    d.zoekmarge_begindatum = Missing \/ d.zoekmarge_einddatum = Missing

parseDataRaises(d) == searchDateRaises(d) \/ getPersonOfSitterRaises(d)

\* the blank nodes one call of parseData makes
bnodesOf(d) == 1 + Len(measured(d)) + Len(relatedPrirefs(d))

\* parseData, lines 297-581: the identity of every entity made, in a
\* process with hash seed `seed` in which BNode() was called k times before.
\* The publication event (line 341), the QuantitativeValues (lines 370-374)
\* and the Roles (line 572) are made with subject None, in this order.
parseData(d, seed, k) ==
    LET sitters == SelectSeq(d.voorgestelde, isCurrent)
        nq == Len(measured(d))
        rel == relatedPrirefs(d)
    IN  [work |-> imageURI(d.priref),
         publication |-> BNode(k + 1),
         quantities |-> [i \in 1..nq |-> BNode(k + 1 + i)],
         artists |-> attributedTo(d),
         sitters |-> [i \in 1..Len(sitters) |-> sitterIdentities(sitters[i], seed)],
         relatedWorks |-> [i \in 1..Len(rel) |->
                             IF Truthy(rel[i]) THEN imageURI(rel[i]) ELSE None],
         roles |-> [i \in 1..Len(rel) |-> BNode(k + 1 + nq + i)]]

-----------------------------------------------------------------------------
(* parseData and getPerson: what they assert about persons and events *)

\* lines 43-196: how the classes declare the properties used below
rdfKindSpouseSingle ==
    [name |-> "rdfMultiple", label |-> "rdfMultiple",
     event |-> "rdfMultiple", spouse |-> "rdfSingle",
     parent |-> "rdfMultiple", children |-> "rdfMultiple",
     partner |-> "rdfMultiple",
     birth |-> "rdfSingle", death |-> "rdfSingle", gender |-> "rdfSingle",
     principal |-> "rdfSingle",
     hasEarliestBeginTimeStamp |-> "rdfSingle", hasLatestEndTimeStamp |-> "rdfSingle"]

rdfKind ==
    [name |-> "rdfMultiple", label |-> "rdfMultiple",
     event |-> "rdfMultiple", spouse |-> "rdfMultiple",
     parent |-> "rdfMultiple", children |-> "rdfMultiple",
     partner |-> "rdfMultiple",
     birth |-> "rdfSingle", death |-> "rdfSingle", gender |-> "rdfSingle",
     principal |-> "rdfSingle",
     hasEarliestBeginTimeStamp |-> "rdfSingle", hasLatestEndTimeStamp |-> "rdfSingle"]

\* subject.property = vals, or property=vals in the constructor of subject
Assertion(subject, property, vals) ==
    [subject |-> subject, property |-> property, vals |-> vals]

\* the graph after one assertion: the values of a multi-valued property are
\* added to those the graph has, the value of a single-valued property
\* replaces the one it has
assert(g, a) ==
    IF rdfKind[a.property] = "rdfMultiple"
    THEN g \cup {<<a.subject, a.property, a.vals[i]>> : i \in 1..Len(a.vals)}
    ELSE IF Len(a.vals) = 0 THEN g
    ELSE {t \in g : ~(t[1] = a.subject /\ t[2] = a.property)}
            \cup {<<a.subject, a.property, a.vals[1]>>}

RECURSIVE assertAll(_, _)
assertAll(g, as) ==
    IF Len(as) = 0 THEN g ELSE assertAll(assert(g, Head(as)), Tail(as))

\* s1 \o s2 \o ... of a sequence of sequences
RECURSIVE Flatten(_)
Flatten(ss) == IF Len(ss) = 0 THEN <<>> ELSE Head(ss) \o Flatten(Tail(ss))

\* lines 470-483, without children=[pURI] on the identified father
fatherAssertionsOneWay(p) ==
    LET pURI == term(nsPerson, p.persoonsnummer)
    IN  IF Truthy(p.vader)
        THEN <<Assertion(fatherOf(p), "name", <<p.naam_vader_samenvoeging>>)>>
        ELSE IF Truthy(p.naam_vader)
        THEN <<Assertion(fatherOf(p), "name", <<p.naam_vader>>),
               Assertion(fatherOf(p), "children", <<pURI>>)>>
        ELSE <<>>

\* lines 470-483
fatherAssertions(p) ==
    LET pURI == term(nsPerson, p.persoonsnummer)
    IN  IF Truthy(p.vader)
        THEN <<Assertion(fatherOf(p), "name", <<p.naam_vader_samenvoeging>>),
               Assertion(fatherOf(p), "children", <<pURI>>)>>
        ELSE IF Truthy(p.naam_vader)
        THEN <<Assertion(fatherOf(p), "name", <<p.naam_vader>>),
               Assertion(fatherOf(p), "children", <<pURI>>)>>
        ELSE <<>>

\* lines 485-498
motherAssertions(p) ==
    LET pURI == term(nsPerson, p.persoonsnummer)
    IN  IF Truthy(p.moeder)
        THEN <<Assertion(motherOf(p), "name", <<p.naam_moeder_samenvoeging>>),
               Assertion(motherOf(p), "children", <<pURI>>)>>
        ELSE IF Truthy(p.naam_moeder)
        THEN <<Assertion(motherOf(p), "name", <<p.naam_moeder>>),
               Assertion(motherOf(p), "children", <<pURI>>)>>
        ELSE <<>>

\* lines 500-509
childAssertions(p) ==
    LET pURI == term(nsPerson, p.persoonsnummer)
    IN  Flatten([i \in 1..Len(p.kinderen) |->
            <<Assertion(term(nsPerson, p.kinderen[i]), "name", <<p.naam_volledig[i]>>),
              Assertion(term(nsPerson, p.kinderen[i]), "parent", <<pURI>>)>>])

\* lines 423-512 for one sitter block with the current identification
sitterAssertions(p) ==
    LET pURI == term(nsPerson, p.persoonsnummer)
        parents == (IF fatherOf(p) # None THEN <<fatherOf(p)>> ELSE <<>>)
                   \o (IF motherOf(p) # None THEN <<motherOf(p)>> ELSE <<>>)
        children == [i \in 1..Len(p.kinderen) |-> term(nsPerson, p.kinderen[i])]
    IN  fatherAssertions(p) \o motherAssertions(p) \o childAssertions(p)
          \o <<Assertion(pURI, "parent", parents),
               Assertion(pURI, "children", children)>>

\* lines 897-931 for one marriage block
marriageAssertions(p, m, seed) ==
    LET person == term(nsPerson, p.identifier)
        partner == partnerOf(p, m)
        marriage == marriageEvent(p, m, seed)
    IN  (IF partner # None
         THEN <<Assertion(partner, "name", partnerName(m)),
                Assertion(partner, "spouse", <<person>>)>>
         ELSE <<>>)
        \o <<Assertion(marriage.id, "partner", marriage.partner)>>
        \o (IF partner # None
            THEN <<Assertion(partner, "event", <<marriage.id>>)>>
            ELSE <<>>)

\* lines 819-941: getPerson(p)
getPersonAssertions(p, seed) ==
    LET person == term(nsPerson, p.identifier)
        evs == getPerson(p, seed)
        ms == SelectSeq(p.marriages, hasMarriage)
        own == SelectSeq(evs, LAMBDA e : e.principal # None)
    IN  <<Assertion(person, "name", <<p.name>>)>>
        \o (IF Truthy(p.gender) THEN <<Assertion(person, "gender", <<p.gender>>)>> ELSE <<>>)
        \o Flatten([i \in 1..Len(own) |->
              <<Assertion(own[i].id, "principal", <<person>>)>>
              \o (IF own[i].cls = "Birth"
                  THEN <<Assertion(person, "birth", <<own[i].id>>)>>
                  ELSE IF own[i].cls = "Death"
                  THEN <<Assertion(person, "death", <<own[i].id>>)>>
                  ELSE <<>>)])
        \o Flatten([i \in 1..Len(ms) |-> marriageAssertions(p, ms[i], seed)])
        \o <<Assertion(person, "event", [i \in 1..Len(evs) |-> evs[i].id]),
             Assertion(person, "spouse", spousesOf(p))>>
        \o [i \in 1..Len(evs) |-> Assertion(evs[i].id, "label", evs[i].label)]

\* lines 338-339: f"{year}-01-01" and f"{year}-12-31"
beginSearchDate(d) == strOf(d.zoekmarge_begindatum) \o "-01-01"

endSearchDate(d) == strOf(d.zoekmarge_einddatum) \o "-12-31"

\* lines 341-344: the PublicationEvent, the first blank node of the call
publicationAssertions(d, k) ==
    <<Assertion(BNode(k + 1), "hasEarliestBeginTimeStamp", <<beginSearchDate(d)>>),
      Assertion(BNode(k + 1), "hasLatestEndTimeStamp", <<endSearchDate(d)>>)>>

\* parseData, lines 422-516: the assertions about the sitters of record d,
\* in the order made
depictedAssertions(d, seed) ==
    LET sitters == SelectSeq(d.voorgestelde, isCurrent)
    IN  Flatten([i \in 1..Len(sitters) |-> sitterAssertions(sitters[i])])
        \o Flatten([i \in 1..Len(sitters) |->
                       getPersonAssertions(personData(sitters[i]), seed)])

\* parseData, lines 297-581: what it asserts about the publication event,
\* the sitters and their events, in a process with hash seed `seed` in which
\* BNode() was called k times before
parseDataAssertions(d, seed, k) ==
    publicationAssertions(d, k) \o depictedAssertions(d, seed)

\* what parseData asserted when it raises: nothing before lines 338-339,
\* the publication event and the parents and children of the sitters
\* before the getPerson calls of line 516
assertionsBeforeRaise(d, k) ==
    IF searchDateRaises(d) THEN <<>>
    ELSE LET sitters == SelectSeq(d.voorgestelde, isCurrent)
         IN  publicationAssertions(d, k)
               \o Flatten([i \in 1..Len(sitters) |-> sitterAssertions(sitters[i])])

-----------------------------------------------------------------------------
(* The date specification: parseDate and getPerson applied to inputs drawn
   from bounded sets *)

YearSpan == 2

\* years around a century divisible by 400, a century that is not, and
\* leap years that are not centuries
Years == (1599..(1599 + YearSpan)) \cup {1604, 1700, 2000}

Months == {"01", "02", "03", "04", "05", "06", "07", "08", "09", "10", "11", "12"}

YearValues == {str(y) : y \in Years}

YearMonthValues == {str(y) \o "-" \o m : y \in Years, m \in Months}

FullDateValues == {"1600-02-03", "1600-02-29", "1601-12-31"}

\* a seven-character value that is no year-month
MalformedValues == {"1600-2-", "1600-13"}

DateValues ==
    {None, ""} \cup YearValues \cup YearMonthValues \cup FullDateValues
        \cup MalformedValues

PersonDateValues == {None, "1600", "1600-02", "1600-02-03"}

MarriageBlocks ==
    {[marriageDate |-> d, marriagePartner |-> n, marriagePartnerIdentifier |-> i,
      marriagePartnerNameWithIdentifier |-> IF i = None THEN None ELSE w,
      marriagePlace |-> None, marriagePlaceIdentifier |-> None] :
        d \in {None, "1650-04-01"}, n \in {None, "Anna"}, i \in {None, "9"},
        w \in {None, "Anna Pieters"}}

PersonValues ==
    {[identifier |-> "7", name |-> nm, gender |-> "m",
      disambiguatingDescription |-> None,
      birthPlace |-> bp,
      birthPlaceIdentifier |-> IF bp = None THEN None ELSE "42",
      birthDateBegin |-> bb, birthDateEnd |-> be,
      baptismDateBegin |-> qb, baptismDateEnd |-> qe,
      deathPlace |-> None, deathPlaceIdentifier |-> None,
      deathDateBegin |-> sb, deathDateEnd |-> se,
      burialDate |-> bu,
      marriages |-> ms] :
        bp \in {None, "Delft"},
        bb \in PersonDateValues, be \in PersonDateValues,
        qb \in {None, "1600-02-03"}, qe \in {None, "1600-02-03"},
        sb \in {None, "1660"}, se \in {None, "1660"},
        bu \in {None, "1660-05-01"},
        nm \in {"Jan", "Aafje"},
        ms \in {<<>>} \cup {<<m>> : m \in MarriageBlocks}}

NoDates == <<None, None>>

NoStamps == <<None, None, None>>

NoPerson == CHOOSE p \in PersonValues : TRUE

NoRaw == [raw |-> None, written |-> Decimal(0, 0), isNumber |-> FALSE]

QuantityIdle == qvIn = NoRaw /\ qvOut = NoValue

UniqueIdle == anon = {}

Terms == {"A", "B", "C"}

Page(broader, narrower, related, titleNL, titleEN, aat) ==
    [broader |-> broader, narrower |-> narrower, related |-> related,
     titleNL |-> titleNL, titleEN |-> titleEN, aat |-> aat]

\* A and B are each other's broader term
CycleGraph ==
    [t \in Terms |->
        CASE t = "A" -> Page(<<"B">>, <<"C">>, <<>>, "doek", "canvas",
                             "http://vocab.getty.edu/aat/300014078")
          [] t = "B" -> Page(<<"A">>, <<>>, <<>>, "drager", "support", None)
          [] t = "C" -> Page(<<>>, <<>>, <<"A">>, "linnen", "linen", None)]

\* A is its own broader term and has two narrower terms
LoopGraph ==
    [t \in Terms |->
        CASE t = "A" -> Page(<<"A">>, <<"B", "C">>, <<>>, "doek", "canvas", None)
          [] t = "B" -> Page(<<>>, <<>>, <<"C">>, "drager", "support", None)
          [] t = "C" -> Page(<<>>, <<>>, <<>>, "linnen", "linen", None)]

\* a chain without cycle
ChainGraph ==
    [t \in Terms |->
        CASE t = "A" -> Page(<<"B">>, <<>>, <<>>, "doek", "canvas", None)
          [] t = "B" -> Page(<<"C">>, <<>>, <<>>, "drager", "support", None)
          [] t = "C" -> Page(<<>>, <<>>, <<>>, "linnen", "linen", None)]

Graphs == {CycleGraph, LoopGraph, ChainGraph}

EmptyCache == [t \in {} |-> NoneValue]

NoCall == [identifier |-> None, returnType |-> None, maxRecursionDepth |-> 0]

NoIdentities ==
    [work |-> None, publication |-> None, quantities |-> <<>>, artists |-> <<>>,
     sitters |-> <<>>, relatedWorks |-> <<>>, roles |-> <<>>]

SitterBlock(status, vader, naam_vader, naam_moeder, kinderen, huwelijk, geboren) ==
    [persoonsnummer |-> "7", naam_display |-> "Jan Six", functie |-> None,
     geslacht |-> "m", status_identificatie_portret |-> status,
     geboorteplaats |-> None, geboorteplaats_lref |-> None,
     geboortedatum_begin |-> geboren, geboortedatum_eind |-> geboren,
     doopdatum_begin |-> None, doopdatum_eind |-> None,
     sterfplaats |-> None, sterfplaats_lref |-> None,
     sterfdatum_begin |-> None, sterfdatum_eind |-> None,
     begraafdatum |-> None,
     huwelijk |-> huwelijk,
     vader |-> vader, naam_vader |-> naam_vader,
     naam_vader_samenvoeging |-> IF vader = None THEN None ELSE "Pieter Six",
     moeder |-> None, naam_moeder |-> naam_moeder,
     naam_moeder_samenvoeging |-> None,
     kinderen |-> kinderen,
     naam_volledig |-> [i \in 1..Len(kinderen) |-> "Aafje Six"]]

Huwelijk(partner, nummer) ==
    [datum_huwelijk |-> "1650-04-01", huwelijks_partner |-> partner,
     huwelijks_partner_nummer_lref |-> nummer,
     naam_huw_partner_samenvoeging |-> IF nummer = None THEN None ELSE "Anna Pieters",
     huwelijk_plaats |-> None, huwelijk_plaats_lref |-> None]

SitterBlocks ==
    {SitterBlock(st, v, nv, nm, k, h, g) :
        st \in {"huidig", "voorheen"},
        v \in {None, "3"}, nv \in {None, "Jan"}, nm \in {None, "Anna"},
        k \in {<<>>, <<"5">>},
        h \in {<<>>, <<Huwelijk("Anna", None)>>, <<Huwelijk("Anna", "9")>>},
        g \in {None, "1600"}}

\* the search-margin year of a record: given, None, empty, or not a key of
\* the record
MarginValues == {"1640", None, "", Missing}

Record(zoekmarge_begindatum, breedte, onderdeel_van, artistiek, voorgestelde) ==
    [priref |-> "100",
     zoekmarge_begindatum |-> zoekmarge_begindatum, zoekmarge_einddatum |-> "1660",
     breedte |-> breedte, hoogte |-> "?", diepte |-> None,
     onderdeel_van |-> onderdeel_van, artistiek |-> artistiek,
     toeschrijving |-> <<[naam_linkref |-> "21", status |-> "huidig"]>>,
     voorgestelde |-> voorgestelde]

Records ==
    {Record(z, b, o, a, <<p>>) :
        z \in MarginValues,
        b \in {None, "45,5 cm"}, o \in {<<>>, <<"200">>}, a \in {<<>>, <<None>>},
        p \in SitterBlocks}

NoRecord == CHOOSE d \in Records : TRUE

MapIdle ==
    /\ doc = NoRecord /\ ids1 = NoIdentities /\ ids2 = NoIdentities /\ bnodes = 0
    /\ db = {} /\ mappedDocs = <<>>

ThesaurusIdle ==
    /\ graph = CycleGraph
    /\ cache = EmptyCache
    /\ disk = EmptyCache
    /\ stack = <<>>
    /\ call = NoCall
    /\ result = NoneValue
    /\ requests = <<>>
    /\ okFetches = [t \in Terms |-> 0]
    /\ linkrefs = <<>>
    /\ keywords = <<>>

InitDate ==
    /\ hashSeed \in SetOrders
    /\ QuantityIdle
    /\ UniqueIdle
    /\ ThesaurusIdle
    /\ MapIdle
    /\ dateExp = NoDates
    /\ dateOut = NoStamps
    /\ events = <<>>
    /\ \/ pc = "parseDate" /\ dateIn \in DateValues \X DateValues /\ personIn = NoPerson
       \/ pc = "getPerson" /\ dateIn = NoDates /\ personIn \in PersonValues

\* the call parseDate(begin, end)
CallParseDate ==
    /\ pc = "parseDate"
    /\ IF parseDateRaises(dateIn[1], dateIn[2])
       THEN /\ pc' = Raised("parseDate")
            /\ dateExp' = <<expandBegin(dateIn[1]), dateIn[2]>>
            /\ UNCHANGED dateOut
       ELSE /\ pc' = Done("parseDate")
            /\ dateExp' = <<expandBegin(dateIn[1]), expandEnd(dateIn[2])>>
            /\ dateOut' = parseDate(dateIn[1], dateIn[2])
    /\ UNCHANGED <<hashSeed, dateIn, personIn, events, quantityVars, anon, thesaurusVars, mapVars>>

\* the call getPerson(p)
CallGetPerson ==
    /\ pc = "getPerson"
    /\ IF getPersonRaises(personIn)
       THEN pc' = Raised("getPerson") /\ UNCHANGED events
       ELSE pc' = Done("getPerson") /\ events' = getPerson(personIn, hashSeed)
    /\ UNCHANGED <<hashSeed, dateIn, dateExp, dateOut, personIn, quantityVars, anon, thesaurusVars, mapVars>>

NextDate == CallParseDate \/ CallGetPerson

vars == <<pc, hashSeed, dateVars, quantityVars, anon, thesaurusVars, mapVars>>

SpecDate == InitDate /\ [][NextDate]_vars

-----------------------------------------------------------------------------
(* The measurement specification: getQuantitativeValue applied to raw
   values drawn from a bounded set *)

MaxWhole == 3

Wholes == {str(n) : n \in 0..MaxWhole} \cup {"45", "120"}

Fractions == {"", "5", "25"}

ApproximationMarkers == {"", "ca", "ca.", "c."}

Gaps == {"", " "}

UnitSuffixes == {"", "cm", " cm"}

\* an optional approximation marker, a number with an optional comma
\* decimal separator and an optional 'cm' suffix
WrittenValues ==
    {[raw |-> a \o g \o w \o (IF f = "" THEN "" ELSE "," \o f) \o u,
      written |-> Decimal(int(w \o f), Len(f)),
      isNumber |-> TRUE] :
        a \in ApproximationMarkers, g \in Gaps, w \in Wholes, f \in Fractions,
        u \in UnitSuffixes}

\* values that hold no number
OtherValues ==
    {[raw |-> r, written |-> Decimal(0, 0), isNumber |-> FALSE] :
        r \in {None, "", "?", "abc", "cm", "ca.", "4,5,5", "onbekend"}}

DateIdle ==
    /\ dateIn = NoDates /\ dateExp = NoDates /\ dateOut = NoStamps
    /\ personIn = NoPerson /\ events = <<>>

InitQuantity ==
    /\ pc = "getQuantitativeValue"
    /\ hashSeed \in SetOrders
    /\ DateIdle
    /\ UniqueIdle
    /\ ThesaurusIdle
    /\ MapIdle
    /\ qvIn \in WrittenValues \cup OtherValues
    /\ qvOut = NoValue

\* the call getQuantitativeValue(value); a ValueError of float is caught
\* inside it (lines 640-642), and nothing else in it raises on a string
CallGetQuantitativeValue ==
    /\ pc = "getQuantitativeValue"
    /\ pc' = Done("getQuantitativeValue")
    /\ qvOut' = getQuantitativeValue(qvIn.raw)
    /\ UNCHANGED <<hashSeed, dateVars, qvIn, anon, thesaurusVars, mapVars>>

NextQuantity == CallGetQuantitativeValue

SpecQuantity == InitQuantity /\ [][NextQuantity]_vars

-----------------------------------------------------------------------------
(* The pseudo-identity specification: the three places that call unique
   for a person known only by name *)

MaxAnon == 2

OwnerIds == {"1", "12"}

AnonNames == {"Jan", "Anna", "2Jan"}

InitUnique ==
    /\ pc = "unique"
    /\ hashSeed \in SetOrders
    /\ DateIdle
    /\ QuantityIdle
    /\ ThesaurusIdle
    /\ MapIdle
    /\ anon = {}

Anonymous(owner, role, name, id) ==
    [owner |-> owner, role |-> role, name |-> name, id |-> id]

\* a sitter's naam_vader, lines 479-483
NameFather ==
    /\ Cardinality(anon) < MaxAnon
    /\ \E o \in OwnerIds, n \in AnonNames :
          anon' = anon \cup {Anonymous(o, "father", n, fatherPseudoId(o, n))}
    /\ UNCHANGED <<pc, hashSeed, dateVars, quantityVars, thesaurusVars, mapVars>>

\* a sitter's naam_moeder, lines 494-498
NameMother ==
    /\ Cardinality(anon) < MaxAnon
    /\ \E o \in OwnerIds, n \in AnonNames :
          anon' = anon \cup {Anonymous(o, "mother", n, motherPseudoId(o, n))}
    /\ UNCHANGED <<pc, hashSeed, dateVars, quantityVars, thesaurusVars, mapVars>>

\* a sitter's marriage partner without identifier, lines 913-915
NameSpouse ==
    /\ Cardinality(anon) < MaxAnon
    /\ \E o \in OwnerIds, n \in AnonNames :
          anon' = anon \cup {Anonymous(o, "spouse", n, partnerPseudoId(o, n))}
    /\ UNCHANGED <<pc, hashSeed, dateVars, quantityVars, thesaurusVars, mapVars>>

NextUnique == NameFather \/ NameMother \/ NameSpouse

SpecUnique == InitUnique /\ [][NextUnique]_vars

-----------------------------------------------------------------------------
(* The resolver specification: runs of main, each loading the saved cache,
   calling getThesaurus any number of times and saving the cache *)

MaxCeiling == 3

MaxFetches == 2

MaxKeywords == 2

\* the lists of term identifiers a record can carry
KeywordLists ==
    UNION {[1..n -> Terms] : n \in 1..MaxKeywords}

Init ==
    /\ pc = "boot"
    /\ hashSeed = <<1, 2, 3>>
    /\ DateIdle
    /\ QuantityIdle
    /\ UniqueIdle
    /\ MapIdle
    /\ graph \in Graphs
    /\ cache = EmptyCache
    /\ disk = EmptyCache
    /\ stack = <<>>
    /\ call = NoCall
    /\ result = NoneValue
    /\ requests = <<>>
    /\ okFetches = [t \in Terms |-> 0]
    /\ linkrefs = <<>>
    /\ keywords = <<>>

\* main, lines 971-976: a process starts and loads the saved cache; what an
\* earlier process held in memory and did not save is gone
StartRun ==
    /\ pc \in {"boot", "crashed", "exit"}
    /\ pc' = "main"
    /\ cache' = disk
    /\ okFetches' = [t \in Terms |-> IF t \in DOMAIN disk THEN okFetches[t] ELSE 0]
    /\ stack' = <<>>
    /\ call' = NoCall
    /\ result' = NoneValue
    /\ requests' = <<>>
    /\ linkrefs' = <<>>
    /\ keywords' = <<>>
    /\ UNCHANGED <<hashSeed, dateVars, quantityVars, anon, mapVars, graph, disk>>

\* an outermost call getThesaurus(identifier, thesaurusDict, returnType),
\* as parseData (lines 327-368, 561-562) and main (line 1027) make it, here
\* with any maxRecursionDepth; lines 661-664
TopCall ==
    /\ pc = "main"
    /\ stack = <<>>
    /\ \E identifier \in Terms, returnType \in ReturnTypes, ceiling \in 1..MaxCeiling :
          /\ stack' = <<Frame(identifier, returnType, 1, ceiling)>>
          /\ call' = [identifier |-> identifier, returnType |-> returnType,
                      maxRecursionDepth |-> ceiling]
    /\ result' = NoneValue
    /\ requests' = <<>>
    /\ UNCHANGED <<pc, hashSeed, dateVars, quantityVars, anon, mapVars, linkrefs, keywords, graph, cache, disk, okFetches>>

Top == stack[Len(stack)]

\* the innermost frame returns v: to the caller's loop, or out of the
\* outermost call
Deliver(v) ==
    IF Len(stack) = 1
    THEN stack' = <<>> /\ result' = v
    ELSE LET caller == stack[Len(stack) - 1]
         IN  /\ stack' = SubSeq(stack, 1, Len(stack) - 2)
                           \o <<withNeighbour(caller, cache[caller.identifier], v)>>
             /\ UNCHANGED result

\* lines 665-666
ReturnAtCeiling ==
    /\ stack # <<>>
    /\ Top.phase = "check"
    /\ atCeiling(Top)
    /\ Deliver(Reference(term(nsThesaurus, Top.identifier)))
    /\ UNCHANGED <<pc, hashSeed, dateVars, quantityVars, anon, mapVars, linkrefs, keywords, graph, cache, disk,
                   call, requests, okFetches>>

\* line 668, the entry is there
CacheHit ==
    /\ stack # <<>>
    /\ Top.phase = "check"
    /\ ~atCeiling(Top)
    /\ ~cacheMiss(cache, Top.identifier)
    /\ stack' = [stack EXCEPT ![Len(stack)].phase = "neighbours"]
    /\ UNCHANGED <<pc, hashSeed, dateVars, quantityVars, anon, mapVars, linkrefs, keywords, graph, cache, disk,
                   call, result, requests, okFetches>>

Request(locale, identifier, found) ==
    [locale |-> locale, identifier |-> identifier, found |-> found]

\* lines 668-696: the two pages are requested; each shows the term or
\* 'Term not found'
Fetch ==
    /\ stack # <<>>
    /\ Top.phase = "check"
    /\ ~atCeiling(Top)
    /\ cacheMiss(cache, Top.identifier)
    /\ okFetches[Top.identifier] < MaxFetches
    /\ \E nl \in BOOLEAN, en \in BOOLEAN :
          /\ requests' = requests \o <<Request("nl", Top.identifier, nl),
                                       Request("en", Top.identifier, en)>>
          /\ cache' = cacheAfterFetch(cache, graph, Top.identifier, nl, en)
          /\ CASE fetchEnd(nl, en) = "cached" ->
                    /\ stack' = [stack EXCEPT ![Len(stack)].phase = "neighbours"]
                    /\ okFetches' = [okFetches EXCEPT ![Top.identifier] = @ + 1]
                    /\ UNCHANGED <<pc, result>>
               [] fetchEnd(nl, en) = "unresolved" ->
                    /\ Deliver(NoneValue)
                    /\ UNCHANGED <<pc, okFetches>>
               [] fetchEnd(nl, en) = "TypeError" ->
                    /\ pc' = "crashed"
                    /\ stack' = <<>>
                    /\ UNCHANGED <<result, okFetches>>
    /\ UNCHANGED <<hashSeed, dateVars, quantityVars, anon, mapVars, linkrefs, keywords, graph, disk, call>>

\* line 754: requests.get raises (no connection, time-out, ...); nothing
\* catches it, the exception leaves getThesaurus and its callers
FetchFails ==
    /\ stack # <<>>
    /\ Top.phase = "check"
    /\ ~atCeiling(Top)
    /\ cacheMiss(cache, Top.identifier)
    /\ pc' = "crashed"
    /\ stack' = <<>>
    /\ UNCHANGED <<hashSeed, dateVars, quantityVars, anon, mapVars, linkrefs, keywords,
                   graph, cache, disk, call, result, requests, okFetches>>

\* lines 699-724: the recursive call for the next neighbour; it passes
\* recursionDepth and leaves maxRecursionDepth at its default
Descend ==
    /\ stack # <<>>
    /\ Top.phase = "neighbours"
    /\ Top.next <= Len(neighbours(cache[Top.identifier]))
    /\ stack' = Append(stack,
                       Frame(neighbours(cache[Top.identifier])[Top.next],
                             Top.returnType, Top.recursionDepth + 1,
                             DefaultMaxRecursionDepth))
    /\ UNCHANGED <<pc, hashSeed, dateVars, quantityVars, anon, mapVars, linkrefs, keywords, graph, cache, disk,
                   call, result, requests, okFetches>>

\* lines 728-749
Finish ==
    /\ stack # <<>>
    /\ Top.phase = "neighbours"
    /\ Top.next > Len(neighbours(cache[Top.identifier]))
    /\ Deliver(returnValue(Top, cache[Top.identifier]))
    /\ UNCHANGED <<pc, hashSeed, dateVars, quantityVars, anon, mapVars, linkrefs, keywords, graph, cache, disk,
                   call, requests, okFetches>>

\* main, lines 1029-1031: the cache is saved and the process ends
Exit ==
    /\ pc = "main"
    /\ stack = <<>>
    /\ disk' = cache
    /\ pc' = "exit"
    /\ UNCHANGED <<hashSeed, dateVars, quantityVars, anon, mapVars, linkrefs, keywords, graph, cache, stack,
                   call, result, requests, okFetches>>

\* parseData, lines 325-326 (and 346-347, 354-355, 362-363): a record's
\* list of term identifiers is about to be resolved
StartKeywords ==
    /\ pc = "main"
    /\ stack = <<>>
    /\ pc' = "parseData.keywords"
    /\ linkrefs' \in KeywordLists
    /\ keywords' = <<>>
    /\ call' = NoCall
    /\ result' = NoneValue
    /\ requests' = <<>>
    /\ UNCHANGED <<hashSeed, dateVars, quantityVars, anon, mapVars, graph, cache, disk,
                   stack, okFetches>>

\* lines 326-329: getThesaurus(k, thesaurusDict, returnType='uri') for the
\* next identifier of the list
KeywordCall ==
    /\ pc = "parseData.keywords"
    /\ stack = <<>>
    /\ call = NoCall
    /\ Len(keywords) < Len(linkrefs)
    /\ LET k == linkrefs[Len(keywords) + 1]
       IN  /\ stack' = <<Frame(k, "uri", 1, DefaultMaxRecursionDepth)>>
           /\ call' = [identifier |-> k, returnType |-> "uri",
                       maxRecursionDepth |-> DefaultMaxRecursionDepth]
    /\ result' = NoneValue
    /\ requests' = <<>>
    /\ UNCHANGED <<pc, hashSeed, dateVars, quantityVars, anon, mapVars, linkrefs, keywords,
                   graph, cache, disk, okFetches>>

\* line 330: keywords.append(concept)
KeywordAppend ==
    /\ pc = "parseData.keywords"
    /\ stack = <<>>
    /\ call # NoCall
    /\ keywords' = Append(keywords, result)
    /\ call' = NoCall
    /\ UNCHANGED <<pc, hashSeed, dateVars, quantityVars, anon, mapVars, linkrefs,
                   graph, cache, disk, stack, result, requests, okFetches>>

\* the list is through; parseData goes on and returns to main
EndKeywords ==
    /\ pc = "parseData.keywords"
    /\ stack = <<>>
    /\ call = NoCall
    /\ Len(keywords) = Len(linkrefs)
    /\ pc' = "main"
    /\ linkrefs' = <<>>
    /\ keywords' = <<>>
    /\ UNCHANGED <<hashSeed, dateVars, quantityVars, anon, mapVars, graph, cache, disk,
                   stack, call, result, requests, okFetches>>

Resolve == ReturnAtCeiling \/ CacheHit \/ Fetch \/ FetchFails \/ Descend \/ Finish

Next == StartRun \/ TopCall \/ ReturnAtCeiling \/ CacheHit \/ Fetch \/ FetchFails
            \/ Descend \/ Finish \/ Exit
            \/ StartKeywords \/ KeywordCall \/ KeywordAppend \/ EndKeywords

Spec == Init /\ [][Next]_vars

\* the interpreter runs on and every request for a page is answered
FairSpec == Spec /\ WF_vars(Resolve)

-----------------------------------------------------------------------------
(* The mapping specification: one record mapped by parseData and mapped
   again, in the same process or in a new one *)

InitMap ==
    /\ pc = "parseData"
    /\ hashSeed \in SetOrders
    /\ DateIdle
    /\ QuantityIdle
    /\ UniqueIdle
    /\ ThesaurusIdle
    /\ doc \in Records
    /\ ids1 = NoIdentities
    /\ ids2 = NoIdentities
    /\ bnodes = 0
    /\ db = {}
    /\ mappedDocs = <<>>

\* parseData(d), the first time
MapRecord ==
    /\ pc = "parseData"
    /\ IF parseDataRaises(doc)
       THEN /\ pc' = Raised("parseData")
            /\ db' = assertAll(db, assertionsBeforeRaise(doc, bnodes))
            /\ UNCHANGED <<ids1, bnodes, mappedDocs>>
       ELSE /\ pc' = "parseData.again"
            /\ ids1' = parseData(doc, hashSeed, bnodes)
            /\ bnodes' = bnodes + bnodesOf(doc)
            /\ db' = assertAll(db, parseDataAssertions(doc, hashSeed, bnodes))
            /\ mappedDocs' = Append(mappedDocs, doc)
    /\ UNCHANGED <<hashSeed, dateVars, quantityVars, anon, thesaurusVars, doc, ids2>>

\* the process ends and a new one starts, with its own hash seed and a
\* new graph (main, line 968)
\* (PYTHONHASHSEED is random unless set)
NewProcess ==
    /\ pc = "parseData.again"
    /\ pc' = "parseData.again in a new process"
    /\ hashSeed' \in SetOrders
    /\ db' = {}
    /\ mappedDocs' = <<>>
    /\ UNCHANGED <<dateVars, quantityVars, anon, thesaurusVars, doc, ids1, ids2, bnodes>>

\* parseData(d), the second time
MapRecordAgain ==
    /\ pc \in {"parseData.again", "parseData.again in a new process"}
    /\ pc' = Done("parseData")
    /\ ids2' = parseData(doc, hashSeed, bnodes)
    /\ bnodes' = bnodes + bnodesOf(doc)
    /\ db' = assertAll(db, parseDataAssertions(doc, hashSeed, bnodes))
    /\ mappedDocs' = Append(mappedDocs, doc)
    /\ UNCHANGED <<hashSeed, dateVars, quantityVars, anon, thesaurusVars, doc, ids1>>

NextMap == MapRecord \/ NewProcess \/ MapRecordAgain

SpecMap == InitMap /\ [][NextMap]_vars

-----------------------------------------------------------------------------
(* The graph specification: records mapped one after the other into the
   graph of one run *)

MaxRecords == 2

PersonNames == [n \in {"1", "2", "3"} |->
                  CASE n = "1" -> "Jan Six" [] n = "2" -> "Anna Pieters" [] n = "3" -> "Aafje Six"]

\* a sitter block of person nr
GraphSitter(nr, status, vader, naam_vader, naam_moeder, kinderen, huwelijk) ==
    [SitterBlock(status, vader, naam_vader, naam_moeder, kinderen, huwelijk, "1600")
        EXCEPT !.persoonsnummer = nr, !.naam_display = PersonNames[nr],
               !.naam_vader_samenvoeging = IF vader = None THEN None ELSE PersonNames[vader],
               !.naam_volledig = [i \in 1..Len(kinderen) |-> PersonNames[kinderen[i]]]]

\* the parents of a block: none, the father by number, or father and
\* mother by name
ParentFields == {<<None, None, None>>, <<"3", None, None>>, <<None, "Jan", "Jan">>}

\* the children and the marriages of the block of person nr
FamilyFields(nr) ==
    {<< <<>>, <<>> >>, << <<"3">>, <<>> >>,
     << <<>>, <<Huwelijk("Anna", None)>> >>,
     << <<>>, <<Huwelijk(None, IF nr = "1" THEN "2" ELSE "1")>> >>}

GraphSitters ==
    {GraphSitter(nr, "huidig", pf[1], pf[2], pf[3], ff[1], ff[2]) :
        nr \in {"1", "2"}, pf \in ParentFields,
        ff \in FamilyFields("1") \cup FamilyFields("2")}

\* the sitter blocks of the records with two of them: the second block is
\* about the father, the child or the spouse of the first, or superseded
FirstSitters ==
    {GraphSitter("1", "huidig", "2", None, None, <<>>, <<>>),
     GraphSitter("1", "huidig", None, None, None, <<"2">>, <<>>),
     GraphSitter("1", "huidig", None, None, None, <<>>, <<Huwelijk(None, "2")>>)}

SecondSitters ==
    {GraphSitter("2", "huidig", None, None, None, <<"3">>, <<>>),
     GraphSitter("2", "huidig", "3", None, None, <<>>, <<Huwelijk(None, "3")>>),
     GraphSitter("2", "voorheen", "3", None, None, <<"1">>, <<>>)}

GraphRecords ==
    {Record("1640", None, <<>>, <<>>, <<p>>) : p \in GraphSitters}
    \cup {Record("1640", None, <<>>, <<>>, <<p, q>>) :
            p \in FirstSitters, q \in SecondSitters}

InitGraph ==
    /\ pc = "main"
    /\ hashSeed = <<1, 2, 3>>
    /\ DateIdle
    /\ QuantityIdle
    /\ UniqueIdle
    /\ ThesaurusIdle
    /\ doc = NoRecord /\ ids1 = NoIdentities /\ ids2 = NoIdentities /\ bnodes = 0
    /\ db = {}
    /\ mappedDocs = <<>>

\* parseData(d), lines 422-516: the persons and events of the sitters of
\* record d go into the graph
ParseDataIntoGraph ==
    /\ pc = "main"
    /\ Len(mappedDocs) < MaxRecords
    /\ \E d \in GraphRecords :
          /\ ~parseDataRaises(d)
          /\ db' = assertAll(db, parseDataAssertions(d, hashSeed, bnodes))
          /\ bnodes' = bnodes + bnodesOf(d)
          /\ mappedDocs' = Append(mappedDocs, d)
    /\ UNCHANGED <<pc, hashSeed, dateVars, quantityVars, anon, thesaurusVars,
                   doc, ids1, ids2>>

NextGraph == ParseDataIntoGraph

SpecGraph == InitGraph /\ [][NextGraph]_vars

-----------------------------------------------------------------------------
(* Claims about parseDate and the events of getPerson *)

\* C6, as claimed: parseDate with begin and end the same four-character
\* year returns the exact timestamp YYYY-01-01.
C6_SameYearIsExact ==
    (pc = Done("parseDate") /\ dateIn[1] \in YearValues /\ dateIn[2] = dateIn[1])
        => dateOut[1] = dateIn[1] \o "-01-01"

\* C6, amended: parseDate with begin and end the same four-character year
\* returns no exact timestamp but the interval from YYYY-01-01 to YYYY-12-31.
C6_SameYearIsInterval ==
    (pc = Done("parseDate") /\ dateIn[1] \in YearValues /\ dateIn[2] = dateIn[1])
        => dateOut = <<None, dateIn[1] \o "-01-01", dateIn[1] \o "-12-31">>

C6_Witness ==
    /\ pc = Done("parseDate")
    /\ dateIn = <<"1600", "1600">>
    /\ dateOut = <<None, "1600-01-01", "1600-12-31">>

\* C7: which of begin and end are present decides the result: both present
\* and different after expansion give an interval and no exact timestamp,
\* only begin gives only earliest, only end gives only latest, neither
\* gives no temporal value.
C7_PresenceDecides ==
    pc = Done("parseDate") =>
        LET b == Truthy(dateIn[1])
            e == Truthy(dateIn[2])
        IN  /\ (b /\ e /\ dateExp[1] # dateExp[2])
                  => dateOut = <<None, dateExp[1], dateExp[2]>>
            /\ (b /\ ~e) => dateOut = <<None, dateExp[1], None>>
            /\ (~b /\ e) => dateOut = <<None, None, dateExp[2]>>
            /\ (~b /\ ~e) => dateOut = NoStamps

\* C8, as claimed: no event of getPerson has hasTimeStamp set together with
\* hasEarliestBeginTimeStamp or hasLatestEndTimeStamp.
C8_ExactOrIntervalNeverBoth ==
    pc = Done("getPerson") =>
        \A i \in 1..Len(events) :
            events[i].hasTimeStamp # None =>
                /\ events[i].hasEarliestBeginTimeStamp = None
                /\ events[i].hasLatestEndTimeStamp = None

\* C8, amended: no event of getPerson has hasTimeStamp set together with a
\* hasEarliestBeginTimeStamp or hasLatestEndTimeStamp that differs from it.
C8_BoundsNeverDisagreeWithExact ==
    pc = Done("getPerson") =>
        \A i \in 1..Len(events) :
            events[i].hasTimeStamp # None =>
                /\ events[i].hasEarliestBeginTimeStamp \in {None, events[i].hasTimeStamp}
                /\ events[i].hasLatestEndTimeStamp \in {None, events[i].hasTimeStamp}

C8_Witness ==
    /\ pc = Done("getPerson")
    /\ \E i \in 1..Len(events) :
          /\ events[i].cls = "Birth"
          /\ events[i].hasTimeStamp = "1600-02-03"
          /\ events[i].hasEarliestBeginTimeStamp = "1600-02-03"
          /\ events[i].hasLatestEndTimeStamp = "1600-02-03"
    /\ \E i \in 1..Len(events) :
          /\ events[i].cls = "Death"
          /\ events[i].hasTimeStamp = None
          /\ events[i].hasEarliestBeginTimeStamp = "1660-01-01"
          /\ events[i].hasLatestEndTimeStamp = "1660-12-31"

\* the number of days of a month of the Gregorian calendar
GregorianLastDay(y, m) ==
    IF m \in {4, 6, 9, 11} THEN 30
    ELSE IF m # 2 THEN 31
    ELSE IF y % 400 = 0 THEN 29
    ELSE IF y % 100 = 0 THEN 28
    ELSE IF y % 4 = 0 THEN 29
    ELSE 28

\* C9: a seven-character year-month value is expanded to the first day of
\* the month as begin and to the last calendar day of the month as end, and
\* that is the value returned wherever parseDate returns the bound.
C9_YearMonthExpansion ==
    pc = Done("parseDate") =>
        /\ dateIn[1] \in YearMonthValues =>
              /\ dateExp[1] = dateIn[1] \o "-01"
              /\ dateOut[2] = dateExp[1]
        /\ dateIn[2] \in YearMonthValues =>
              /\ dateExp[2] = dateIn[2] \o "-"
                    \o str(GregorianLastDay(int(SubSeq(dateIn[2], 1, 4)),
                                            int(SubSeq(dateIn[2], 6, 7))))
              /\ Truthy(dateIn[1]) => dateOut[3] = dateExp[2]

C9_Witness ==
    /\ pc = Done("parseDate")
    /\ dateIn = <<"1600-02", "1700-02">>
    /\ dateOut = <<None, "1600-02-01", "1700-02-28">>

-----------------------------------------------------------------------------
(* Claims about getQuantitativeValue *)

\* C10: for a raw value made of an optional approximation marker, a number
\* with an optional comma decimal separator and an optional 'cm' suffix,
\* getQuantitativeValue returns unit code 'MTR' and the written centimetre
\* number divided by 100; for "?", an empty value or text that is no
\* number it returns no value.
C10_WrittenNumberInMetres ==
    pc = Done("getQuantitativeValue") =>
        IF qvIn.isNumber
        THEN /\ qvOut.unitCode = "MTR"
             /\ SameNumber(qvOut.value,
                           Decimal(qvIn.written.num, qvIn.written.scale + 2))
        ELSE qvOut = NoValue

-----------------------------------------------------------------------------
(* Claims about unique *)

\* C2: the pseudo-identity of an anonymous person is a function of (owning
\* person id, role, name): identical fields give the same identity, and a
\* difference in any one field gives a different identity.
C2_PseudoIdentityKeyedOnOwnerRoleName ==
    \A a \in anon, b \in anon :
        (a.id = b.id) <=> (a.owner = b.owner /\ a.role = b.role /\ a.name = b.name)

-----------------------------------------------------------------------------
(* Claims about getThesaurus *)

\* the outermost call has returned
Returned == pc = "main" /\ stack = <<>> /\ call # NoCall

\* a value whose nodes at level `level` and below are within the ceiling:
\* a Concept only above the ceiling, a bare reference at it
RECURSIVE WithinCeiling(_, _, _)
WithinCeiling(v, level, ceiling) ==
    /\ level <= ceiling
    /\ v.kind = "concept" => level < ceiling
    /\ LET below == v.broader \o v.narrower \o v.related
       IN  \A i \in 1..Len(below) : WithinCeiling(below[i], level + 1, ceiling)

C3_NoDeeperThanCeiling ==
    /\ \A i \in 1..Len(stack) : stack[i].recursionDepth <= call.maxRecursionDepth
    /\ (Returned /\ result.kind # "none")
          => WithinCeiling(result, 1, call.maxRecursionDepth)

\* C3: for every graph, cyclic ones included, and every depth ceiling from 1
\* on, a call of getThesaurus ends; no frame and no returned expansion is
\* deeper than the ceiling, and a neighbour at the ceiling is a bare
\* reference.
C3_TerminatesWithinCeiling ==
    /\ []C3_NoDeeperThanCeiling
    /\ (stack # <<>>) ~> (stack = <<>>)

\* A resolved in 'concept' mode in the graph where A and B are each other's
\* broader term, ceiling 3: B closes the cycle as a bare reference
C3_Witness ==
    /\ Returned
    /\ graph = CycleGraph
    /\ call = [identifier |-> "A", returnType |-> "concept", maxRecursionDepth |-> 3]
    /\ result.kind = "concept"
    /\ result.broader = <<Reference(term(nsThesaurus, "B"))>>

NotFoundTwice(identifier) ==
    <<Request("nl", identifier, FALSE), Request("en", identifier, FALSE)>>

FoundTwice(identifier) ==
    <<Request("nl", identifier, TRUE), Request("en", identifier, TRUE)>>

\* C4: a call that finds the term in neither locale returns None and leaves
\* the cache without an entry for it; no entry, in memory or saved, stands
\* for a term that was not found; so a call (maxRecursionDepth 2 or more)
\* for an identifier without entry requests both pages again, in this run
\* or a later one, and when both pages show the term it is resolved and
\* cached.
C4_PositiveCachingOnly ==
    /\ \A t \in DOMAIN cache : cache[t] = Entry(graph, t) /\ okFetches[t] >= 1
    /\ \A t \in DOMAIN disk : disk[t] = Entry(graph, t)
    /\ (Returned /\ call.maxRecursionDepth >= 2) =>
          /\ result.kind = "none" =>
                /\ call.identifier \notin DOMAIN cache
                /\ requests = NotFoundTwice(call.identifier)
          /\ call.identifier \notin DOMAIN cache =>
                /\ result.kind = "none"
                /\ requests = NotFoundTwice(call.identifier)
          /\ requests = FoundTwice(call.identifier) =>
                /\ call.identifier \in DOMAIN cache
                /\ result.kind # "none"

\* a term is not found in a run that started from a saved cache: it has no
\* entry, in memory or saved
C4_Witness ==
    /\ Returned
    /\ DOMAIN disk # {}
    /\ result.kind = "none"
    /\ requests = NotFoundTwice(call.identifier)
    /\ call.identifier \notin DOMAIN cache \cup DOMAIN disk

RequestsFor(rs, t) == Cardinality({i \in 1..Len(rs) : rs[i].identifier = t})

\* C5: no step requests a page of an identifier that has a cache entry, and
\* no identifier is fetched into the cache twice while its entry lives.
C5_CacheBeforeFetch ==
    /\ [](\A t \in Terms : okFetches[t] <= 1)
    /\ [][\A t \in DOMAIN cache : RequestsFor(requests', t) <= RequestsFor(requests, t)]_vars

\* a call for a cached identifier has returned its Concept without a request
C5_Witness ==
    /\ Returned
    /\ call.maxRecursionDepth >= 2
    /\ call.returnType = "concept"
    /\ call.identifier \in DOMAIN cache
    /\ requests = <<>>
    /\ result.kind = "concept"

-----------------------------------------------------------------------------
(* Claims about parseData *)

\* C1: mapping the same record twice with parseData, in the same run or in
\* a separate one, gives every entity produced the same identity.
C1_SameIdentitiesWhenMappedAgain ==
    pc = Done("parseData") => ids2 = ids1

-----------------------------------------------------------------------------
(* Claims about getEventLabel *)

\* the year part the label of an event is to carry
YearPart(e) ==
    IF e.hasTimeStamp # None THEN SubSeq(e.hasTimeStamp, 1, 4)
    ELSE IF e.hasEarliestBeginTimeStamp # None /\ e.hasLatestEndTimeStamp # None
    THEN "ca. " \o SubSeq(e.hasEarliestBeginTimeStamp, 1, 4) \o "-"
                \o SubSeq(e.hasLatestEndTimeStamp, 1, 4)
    ELSE IF e.hasEarliestBeginTimeStamp # None
    THEN "ca. " \o SubSeq(e.hasEarliestBeginTimeStamp, 1, 4) \o "-?"
    ELSE IF e.hasLatestEndTimeStamp # None
    THEN "ca. ?-" \o SubSeq(e.hasLatestEndTimeStamp, 1, 4)
    ELSE "?"

\* the labels end with the year part in brackets
EndsWith(s, tail) ==
    Len(s) >= Len(tail) /\ SubSeq(s, Len(s) - Len(tail) + 1, Len(s)) = tail

StartsWith(s, head) == Len(s) >= Len(head) /\ SubSeq(s, 1, Len(head)) = head

HasBothLabels(e) ==
    /\ Len(e.label) = 2
    /\ StartsWith(e.label[1], eventTranslationNL[e.cls] \o " van ")
    /\ StartsWith(e.label[2], e.cls \o " of ")
    /\ EndsWith(e.label[1], " (" \o YearPart(e) \o ")")
    /\ EndsWith(e.label[2], " (" \o YearPart(e) \o ")")

\* the labels of the events getPerson returned have the form
C11_LabelsOfReturnedEvents ==
    pc = Done("getPerson") =>
        \A i \in 1..Len(events) : HasBothLabels(events[i])

\* C11: getEventLabel returns, for every event getPerson builds, a Dutch
\* and an English label "{EventType} van/of {participants} ({year})", the
\* year part being the exact year, "ca. E-L", "ca. E-?", "ca. ?-L" or "?".
C11_EveryEventIsLabelled ==
    /\ pc # Raised("getPerson")
    /\ C11_LabelsOfReturnedEvents

-----------------------------------------------------------------------------
(* Claims about the return type 'uri' *)

\* C12 as stated: a call of getThesaurus with returnType 'uri' returns the
\* term's bare reference at once: it requests no page, no call for a
\* neighbour is made under it, and it always returns the reference.
C12_ReferenceModeShortCircuits ==
    /\ \A i \in 1..Len(stack) :
          stack[i].returnType = "uri" => Len(stack) = 1 /\ stack[i].phase = "check"
    /\ (call.returnType = "uri" /\ stack = <<>>) =>
          /\ pc = "main"
          /\ requests = <<>>
          /\ result = Reference(term(nsThesaurus, call.identifier))

\* C12 as amended: a call of getThesaurus with returnType 'uri' that
\* returns never returns a Concept: it returns the term's bare reference,
\* or None when the term has no cache entry and neither page shows it; the
\* only pages it requests are the two of its own identifier, on a cache
\* miss, and every call it makes for a neighbour is at the ceiling.
C12_ReferenceModeReturnsReference ==
    /\ \A i \in 2..Len(stack) :
          stack[1].returnType = "uri" =>
              /\ stack[i].returnType = "uri"
              /\ atCeiling(stack[i])
    /\ (Returned /\ call.returnType = "uri") =>
          /\ result \in {Reference(term(nsThesaurus, call.identifier)), NoneValue}
          /\ result = NoneValue <=> requests = NotFoundTwice(call.identifier)
          /\ requests \in {<<>>, NotFoundTwice(call.identifier),
                            FoundTwice(call.identifier)}

\* a call with returnType 'uri' fetched both pages of its term, went
\* through the neighbours and returned the bare reference
C12_Witness ==
    /\ Returned
    /\ call.returnType = "uri"
    /\ graph = CycleGraph
    /\ call.identifier = "A"
    /\ requests = FoundTwice("A")
    /\ result = Reference(term(nsThesaurus, "A"))

-----------------------------------------------------------------------------
(* Claims about the two locale pages *)

\* the pages requested for the identifier of the outermost call: whether
\* the Dutch and the English one showed the term
OwnPages == {<<requests[i].found, requests[i + 1].found>> :
                i \in {j \in 1..(Len(requests) - 1) :
                          /\ requests[j].locale = "nl"
                          /\ requests[j].identifier = call.identifier}}

\* C13: on a cache miss both locale pages are requested; the call returns
\* None only when neither shows the term; when exactly one of them shows
\* it the call completes without error, the term is resolved and its cache
\* entry is written.
C13_OneLocaleIsEnough ==
    (stack = <<>> /\ call # NoCall /\ OwnPages # {}) =>
        /\ pc = "main"
        /\ result.kind = "none" <=> OwnPages = {<<FALSE, FALSE>>}
        /\ OwnPages # {<<FALSE, FALSE>>} => call.identifier \in DOMAIN cache

-----------------------------------------------------------------------------
(* Claims about the terms of one list *)

\* C14: a failed fetch for one term of a list (an error of the request, or
\* the term not found) makes that term unresolved and nothing more: no
\* exception leaves the list half resolved, every term after the failing
\* one is still resolved, and the mapping of the record goes on.
C14_SiblingsSurviveAFailedFetch ==
    /\ pc = "crashed" => Len(keywords) = Len(linkrefs)
    /\ \A i \in 1..Len(keywords) :
          keywords[i] \in {Reference(term(nsThesaurus, linkrefs[i])), NoneValue}

-----------------------------------------------------------------------------
(* Claims about the graph of one run *)

\* C15: after any sequence of mapped records, whenever A's children contain
\* B then B's parents contain A, and whenever B's parents contain A then
\* A's children contain B.
C15_ParentChildSymmetric ==
    \A t \in db :
        /\ t[2] = "children" => <<t[3], "parent", t[1]>> \in db
        /\ t[2] = "parent" => <<t[3], "children", t[1]>> \in db

\* person 3 was asserted as the father of sitter 1 by one record and as the
\* father of sitter 2 by the next
C15_Witness ==
    /\ Len(mappedDocs) = 2
    /\ mappedDocs[1].voorgestelde[1].persoonsnummer = "1"
    /\ mappedDocs[2].voorgestelde[1].persoonsnummer = "2"
    /\ <<term(nsPerson, "3"), "children", term(nsPerson, "1")>> \in db
    /\ <<term(nsPerson, "3"), "children", term(nsPerson, "2")>> \in db
    /\ <<term(nsPerson, "1"), "parent", term(nsPerson, "3")>> \in db

\* what the records mapped so far asserted
AllAssertions ==
    UNION {{as[j] : j \in 1..Len(as)} :
            as \in {depictedAssertions(mappedDocs[k], hashSeed) : k \in 1..Len(mappedDocs)}}

\* the triples these assertions stand for
AssertedTriples ==
    UNION {{<<a.subject, a.property, a.vals[i]>> : i \in 1..Len(a.vals)} :
            a \in AllAssertions}

PersonProperties == {"name", "event", "spouse", "parent", "children"}

\* C16: the multi-valued properties name, event, spouse, parent and
\* children of an identity asserted more than once in a run hold the union
\* of all values asserted for it: no earlier value is lost and none is there
\* that was not asserted.
C16_AssertionsAreMerged ==
    {t \in db : t[2] \in PersonProperties}
        = {t \in AssertedTriples : t[2] \in PersonProperties}

\* person 2 was asserted as the spouse of sitter 1 by one record and then
\* as a sitter with a spouse of its own: it has both spouses
C16_Witness ==
    /\ Len(mappedDocs) = 2
    /\ mappedDocs[1].voorgestelde[1].persoonsnummer = "1"
    /\ mappedDocs[2].voorgestelde[1].persoonsnummer = "2"
    /\ <<term(nsPerson, "2"), "spouse", term(nsPerson, "1")>> \in db
    /\ <<term(nsPerson, "2"), "spouse", partnerPseudoId("2", "Anna")>> \in db

-----------------------------------------------------------------------------
(* Claims about missing raw fields *)

\* a raw value that is there and not empty
Present(v) == v # Missing /\ Truthy(v)

\* C17: a raw field that is empty or missing is no error and gives no
\* value: parseData completes, and the publication event carries an
\* earliest (latest) date only when the record has the search-margin year
\* it is built from.
C17_MissingFieldsGiveNoValue ==
    /\ pc # Raised("parseData")
    /\ \A t \in db :
          /\ t[2] = "hasEarliestBeginTimeStamp" => Present(doc.zoekmarge_begindatum)
          /\ t[2] = "hasLatestEndTimeStamp" => Present(doc.zoekmarge_einddatum)

-----------------------------------------------------------------------------
(* Claims about a call with the default ceiling *)

DefaultCall == call # NoCall /\ call.maxRecursionDepth = DefaultMaxRecursionDepth

\* the pages requested are those of the call's own identifier, at most one
\* per locale, and a call for a neighbour is at the ceiling
OwnRequestsOnly ==
    DefaultCall =>
        /\ \A i \in 1..Len(requests) : requests[i].identifier = call.identifier
        /\ \A i, j \in 1..Len(requests) : requests[i].locale = requests[j].locale => i = j
        /\ \A i \in 2..Len(stack) : atCeiling(stack[i])

\* a step of the call leaves the cache as it is or inserts the entry of the
\* call's own identifier
AtMostOwnEntryInserted ==
    (DefaultCall /\ stack # <<>>) =>
        \/ cache' = cache
        \/ /\ call.identifier \notin DOMAIN cache
           /\ DOMAIN cache' = DOMAIN cache \cup {call.identifier}
           /\ \A t \in DOMAIN cache : cache'[t] = cache[t]

\* C18: with the default ceiling a top-level call of getThesaurus requests
\* only the pages of its own identifier, at most one per locale; every
\* neighbour returns at the depth check, before the cache is looked at; the
\* cache changes by at most one inserted entry, that of the call's own
\* identifier, and no entry it had is changed or removed.
C18_DefaultCeilingTouchesOwnEntryOnly ==
    /\ []OwnRequestsOnly
    /\ [][AtMostOwnEntryInserted]_vars

\* A was resolved into a Concept from an empty cache: its neighbours B and
\* C came back as bare references and only A has an entry
C18_Witness ==
    /\ Returned
    /\ DefaultCall
    /\ graph = CycleGraph
    /\ call.identifier = "A"
    /\ call.returnType = "concept"
    /\ requests = FoundTwice("A")
    /\ DOMAIN cache = {"A"}
    /\ result.broader = <<Reference(term(nsThesaurus, "B"))>>
    /\ result.narrower = <<Reference(term(nsThesaurus, "C"))>>

====
